---- MODULE Spec2Model ----
(***************************************************************************)
(* README generator: repository-data aggregation (app/tools.py), prompt    *)
(* construction and structured-output handling (app/agents.py) and the     *)
(* two request handlers (app.py).                                          *)
(*                                                                         *)
(* Text is modelled as a sequence of one-character strings, so that        *)
(* stripping, suffix removal and pattern matching are computed on the      *)
(* characters as the Python code computes them.                            *)
(***************************************************************************)
EXTENDS Integers, Sequences, FiniteSets, TLC

VARIABLES
    url,        \* parse_repo_url: the argument `url`
    owner,      \* the owner the input was built from (<<>> for a free-form input)
    name,       \* the repository name the input was built from
    form,       \* which accepted form the input was built in (0: free-form)
    parsed,     \* parse_repo_url: outcome (none yet / return value / ValueError)
    remote,     \* _build_tree: what the remote repository answers to get_contents(path)
    tree,       \* _build_tree: outcome of the root call (none yet / returned list / raised)
    formatted,  \* _format_tree: outcome on the returned tree (none yet / rendered text)
    content_file, \* _read_file_content: what repo.get_contents(file_path) answers
    content,    \* _read_file_content: outcome (none yet / returned value / raised)
    style,      \* generate_readme: the style key
    custom_instructions, \* generate_readme: the user's extra instructions
    chain_data, \* generate_readme: the repo_data digest it is given
    prompt,     \* the rendered system and human messages (none yet / built)
    request,    \* app.py: the request being served
    pc,         \* app.py: where the handler of the request stands
    g,          \* fetch_repo_data: the Github client ("none", "open", "closed")
    repo,       \* fetch_repo_data: the repository handle (none yet / resolved)
    file_tree,  \* fetch_repo_data: file_tree_str
    important_files, \* fetch_repo_data: important_file_contents
    existing_readme, \* fetch_repo_data: existing_readme
    readme_i,   \* fetch_repo_data: position of the README loop in its candidate list
    calls,      \* the README reads and completion calls made so far, in order
    repo_data,  \* the handler's repo_data: outcome of fetch_repo_data
    completion, \* what the completion service answered (none yet / answer)
    response    \* the HTTP response of the handler (none yet / status and body)

parseVars == <<url, owner, name, form, parsed>>
treeVars == <<remote, tree, formatted>>
readVars == <<content_file, content>>
chainVars == <<style, custom_instructions, chain_data, prompt>>
reqVars == <<request, pc, g, repo, file_tree, important_files, existing_readme,
             readme_i, calls, repo_data, completion, response>>
vars == <<parseVars, treeVars, readVars, chainVars, reqVars>>

(***************************************************************************)
(* Bounds of the model                                                     *)
(***************************************************************************)
MaxCoreLen == 3
MaxNameLen == 2
RemoteDepth == 4
ExtraGroups == 2

(***************************************************************************)
(* Text helpers (Python str methods and the two regular expressions)       *)
(***************************************************************************)
Min(a, b) == IF a < b THEN a ELSE b

Whitespace == {" ", "\t", "\n"}

HTTPS == <<"h", "t", "t", "p", "s", ":", "/", "/">>
HTTP == <<"h", "t", "t", "p", ":", "/", "/">>
HOST == <<"g", "i", "t", "h", "u", "b", ".", "c", "o", "m", "/">>
DOTGIT == <<".", "g", "i", "t">>
SLASH == <<"/">>

StartsWith(s, p) == Len(s) >= Len(p) /\ SubSeq(s, 1, Len(p)) = p

EndsWith(s, p) == Len(s) >= Len(p) /\ SubSeq(s, Len(s) - Len(p) + 1, Len(s)) = p

Drop(s, n) == SubSeq(s, n + 1, Len(s))

\* str.strip(): leading and trailing whitespace removed
Strip(s) ==
    LET keep == {i \in 1..Len(s) : s[i] \notin Whitespace}
    IN  IF keep = {} THEN <<>>
        ELSE SubSeq(s, CHOOSE i \in keep : \A j \in keep : i <= j,
                       CHOOSE i \in keep : \A j \in keep : i >= j)

\* str.rstrip("/"): every trailing '/' removed
RStripSlash(s) ==
    LET keep == {i \in 1..Len(s) : s[i] # "/"}
    IN  IF keep = {} THEN <<>>
        ELSE SubSeq(s, 1, CHOOSE i \in keep : \A j \in keep : i >= j)

\* the longest prefix of s holding no '/': what a greedy [^/]+ consumes
SegLen(s) ==
    LET stops == {i \in 1..Len(s) : s[i] = "/"}
    IN  IF stops = {} THEN Len(s)
        ELSE (CHOOSE i \in stops : \A j \in stops : i <= j) - 1

NoMatch == [kind |-> "nomatch"]
Match(grp) == [kind |-> "match", group |-> grp]

\* ([^/]+/[^/]+) matched at the start of s, not anchored at its end
TwoSegments(s) ==
    LET n1 == SegLen(s)
        rest == Drop(s, n1 + 1)
        n2 == SegLen(rest)
    IN  IF n1 >= 1 /\ Len(s) > n1 /\ n2 >= 1
        THEN Match(SubSeq(s, 1, n1 + 1 + n2))
        ELSE NoMatch

\* re.match(r"(?:https?://)?github\.com/([^/]+/[^/]+)", url)
FullUrlPattern(s) ==
    LET body == IF StartsWith(s, HTTPS) THEN Drop(s, Len(HTTPS))
                ELSE IF StartsWith(s, HTTP) THEN Drop(s, Len(HTTP))
                ELSE s
    IN  IF StartsWith(body, HOST) THEN TwoSegments(Drop(body, Len(HOST)))
        ELSE NoMatch

\* re.match(r"^([^/]+/[^/]+)$", url)
OwnerRepoPattern(s) ==
    LET m == TwoSegments(s)
    IN  IF m.kind = "match" /\ Len(m.group) = Len(s) THEN m ELSE NoMatch

Return(v) == [kind |-> "return", value |-> v]
Raise(e) == [kind |-> "raise", exc |-> e]
NotCalled == [kind |-> "none"]

\* Optional[str]
None == [none |-> TRUE]
Some(t) == [none |-> FALSE, text |-> t]

\* Each function is exercised by a specification of its own; the variables of
\* the other functions then rest at these values.
NoRemote == [shape |-> <<>>, failing |-> {}, all |-> FALSE, exc |-> "GithubException"]

NoResponse == [kind |-> "none"]

ParseIdle == url = <<>> /\ owner = <<>> /\ name = <<>> /\ form = 0 /\ parsed = NotCalled

TreeIdle == remote = NoRemote /\ tree = NotCalled /\ formatted = NotCalled

ReadIdle == content_file = NoResponse /\ content = NotCalled

ChainIdle ==
    /\ style = "" /\ custom_instructions = <<>>
    /\ chain_data = NotCalled /\ prompt = NotCalled

ReqIdle ==
    /\ request = NotCalled /\ pc = "idle" /\ g = "none" /\ repo = NotCalled
    /\ file_tree = <<>> /\ important_files = <<>> /\ existing_readme = None
    /\ readme_i = 0 /\ calls = <<>> /\ repo_data = NotCalled
    /\ completion = NotCalled /\ response = NotCalled

\* `if url.endswith(".git"): url = url[:-4]` with the suffix left in place
RemoveGitSuffixKept(s) == s

RemoveGitSuffix(s) == IF EndsWith(s, DOTGIT) THEN SubSeq(s, 1, Len(s) - 4) ELSE s

parse_repo_url(u) ==
    LET s == RemoveGitSuffix(RStripSlash(Strip(u)))
        m1 == FullUrlPattern(s)
        m2 == OwnerRepoPattern(s)
    IN  IF m1.kind = "match" THEN Return(m1.group)
        ELSE IF m2.kind = "match" THEN Return(m2.group)
        ELSE Raise("ValueError")

(***************************************************************************)
(* _build_tree: depth-bounded recursive listing                            *)
(***************************************************************************)
MAX_TREE_DEPTH == 3

\* A remote repository, as far as directory listing goes.  A path is the
\* sequence of entry names leading to it (<<>> is the root).  Every directory
\* at level d lists shape[d] (level 1 is the root); directories below
\* RemoteDepth are empty.  A listing call on a path in `failing` raises `exc`.
Listings == {<<>>, <<"file">>, <<"dir">>, <<"dir", "file">>, <<"file", "dir">>,
             <<"dir", "dir">>, <<"symlink", "dir">>}

FailPaths == {<<>>, <<1>>, <<2>>, <<1, 1>>, <<1, 2>>, <<2, 1>>, <<2, 2>>}

\* GithubException and its subclasses (not found, rate limit) against any
\* other exception the HTTP layer lets through (connection error, timeout)
ListingExceptions == {"GithubException", "ConnectionError"}

Remote(sh, f, a, e) == [shape |-> sh, failing |-> f, all |-> a, exc |-> e]

ListingFails(r, path) == r.all \/ path \in r.failing

ListingOf(r, path) ==
    IF Len(path) + 1 <= RemoteDepth THEN r.shape[Len(path) + 1] ELSE <<>>

\* repo.get_contents(path) for a directory path
get_contents(r, path) ==
    IF ListingFails(r, path) THEN Raise(r.exc)
    ELSE Return([i \in 1..Len(ListingOf(r, path)) |->
                    [name |-> i, type |-> ListingOf(r, path)[i], path |-> Append(path, i)]])

HasChildren(n) == "children" \in DOMAIN n

NodeType(item) == IF item.type = "dir" THEN "dir" ELSE "file"

\* `if item.type == "dir" and depth < MAX_TREE_DEPTH - 1` with the depth test lost
RecursesAlways(item, depth) == item.type = "dir"

Recurses(item, depth) == item.type = "dir" /\ depth < MAX_TREE_DEPTH - 1

Caught(e) == e = "GithubException"

RECURSIVE _build_tree(_, _, _)
_build_tree(r, path, depth) ==
    IF depth >= MAX_TREE_DEPTH THEN Return(<<>>)
    ELSE
      LET res == get_contents(r, path)
      IN  IF res.kind = "raise"
          THEN IF Caught(res.exc) THEN Return(<<>>) ELSE res
          ELSE
            LET contents == res.value
                sub(i) == _build_tree(r, contents[i].path, depth + 1)
                raising == {i \in 1..Len(contents) :
                              Recurses(contents[i], depth) /\ sub(i).kind = "raise"}
                node(i) == [name |-> contents[i].name,
                            type |-> NodeType(contents[i]),
                            path |-> contents[i].path]
            IN  IF raising # {}
                THEN sub(CHOOSE i \in raising : \A j \in raising : i <= j)
                ELSE Return([i \in 1..Len(contents) |->
                        IF Recurses(contents[i], depth)
                        THEN [name |-> node(i).name, type |-> node(i).type,
                              path |-> node(i).path, children |-> sub(i).value]
                        ELSE node(i)])

InitTree ==
    /\ \E sh \in [1..RemoteDepth -> Listings], e \in ListingExceptions :
          \/ remote = Remote(sh, {}, FALSE, "GithubException")
          \/ remote = Remote(sh, {}, TRUE, e)
          \/ \E q \in FailPaths : remote = Remote(sh, {q}, FALSE, e)
    /\ tree = NotCalled
    /\ formatted = NotCalled
    /\ ParseIdle /\ ReadIdle /\ ChainIdle /\ ReqIdle

BuildTree ==
    /\ tree.kind = "none"
    /\ tree' = _build_tree(remote, <<>>, 0)
    /\ UNCHANGED <<remote, formatted>>
    /\ UNCHANGED <<parseVars, readVars, chainVars, reqVars>>

\* every node of t, paired with its depth, t being the list returned at depth d
RECURSIVE NodesFrom(_, _)
NodesFrom(t, d) ==
    UNION {{<<d, t[i]>>} \cup (IF HasChildren(t[i]) THEN NodesFrom(t[i].children, d + 1) ELSE {})
             : i \in 1..Len(t)}

\* C3: the returned tree has at most 3 levels (depth 0, 1, 2); a node carries a
\* children field only if it is a dir at depth < 2, so no node at depth 2 and
\* no file node carries children.
C3_TreeDepthBounded ==
    tree.kind = "return" =>
        \A dn \in NodesFrom(tree.value, 0) :
            /\ dn[1] <= 2
            /\ HasChildren(dn[2]) => (dn[2].type = "dir" /\ dn[1] < 2)
            /\ (dn[1] = 2 \/ dn[2].type = "file") => ~HasChildren(dn[2])

\* a directory at depth 2 whose remote listing is not empty is returned bare
C3_Witness ==
    /\ tree.kind = "return"
    /\ \E dn \in NodesFrom(tree.value, 0) :
          /\ dn[1] = 2
          /\ dn[2].type = "dir"
          /\ ~ListingFails(remote, dn[2].path)
          /\ ListingOf(remote, dn[2].path) # <<>>

\* C4: a failing listing call, whatever its cause, never raises to the caller:
\* the failing branch yields an empty sequence, its siblings are still
\* returned, and when every listing call fails the result is empty.
C4_ListingFailureAbsorbed ==
    tree.kind # "none" =>
        /\ tree.kind = "return"
        /\ ListingFails(remote, <<>>) => tree.value = <<>>
        /\ ~ListingFails(remote, <<>>) => Len(tree.value) = Len(ListingOf(remote, <<>>))
        /\ \A dn \in NodesFrom(tree.value, 0) :
              (HasChildren(dn[2]) /\ ListingFails(remote, dn[2].path)) => dn[2].children = <<>>

\* what the code does keep of C4: a listing call that fails with a
\* GithubException is absorbed as above
C4_GithubFailureAbsorbed == remote.exc = "GithubException" => C4_ListingFailureAbsorbed

C4_GithubWitness ==
    /\ tree.kind = "return"
    /\ remote.failing = {<<1>>}
    /\ Len(tree.value) = 2
    /\ HasChildren(tree.value[1]) /\ tree.value[1].children = <<>>
    /\ HasChildren(tree.value[2]) /\ tree.value[2].children # <<>>

(***************************************************************************)
(* _format_tree: a text is the sequence of its pieces, "\n" between lines  *)
(***************************************************************************)
\* the box-drawing connectors, in ASCII: the corner is drawn for the last
\* sibling, the tee for every other one
LastConnector == "L-- "
MidConnector == "+-- "

RECURSIVE JoinLines(_)
JoinLines(lines) ==
    IF lines = <<>> THEN <<>>
    ELSE IF Len(lines) = 1 THEN lines[1]
    ELSE lines[1] \o <<"\n">> \o JoinLines(Tail(lines))

RECURSIVE FormatLines(_, _, _)
RECURSIVE _format_tree(_, _)

\* the entries appended to `lines` for the nodes i..len(tree)
FormatLines(t, prefix, i) ==
    IF i > Len(t) THEN <<>>
    ELSE
      LET is_last == i = Len(t)
          connector == IF is_last THEN LastConnector ELSE MidConnector
          icon == IF t[i].type = "dir" THEN "[dir] " ELSE "[file] "
          extension == IF is_last THEN "    " ELSE "|   "
      IN  <<prefix \o <<connector, icon, ToString(t[i].name)>>>>
          \o (IF HasChildren(t[i])
              THEN <<_format_tree(t[i].children, prefix \o <<extension>>)>>
              ELSE <<>>)
          \o FormatLines(t, prefix, i + 1)

_format_tree(t, prefix) == JoinLines(FormatLines(t, prefix, 1))

\* file_tree_str = _format_tree(tree), once _build_tree has returned
FormatTree ==
    /\ tree.kind = "return"
    /\ formatted.kind = "none"
    /\ formatted' = Return(_format_tree(tree.value, <<>>))
    /\ UNCHANGED <<remote, tree>>
    /\ UNCHANGED <<parseVars, readVars, chainVars, reqVars>>

NextTree == BuildTree \/ FormatTree

SpecTree == InitTree /\ [][NextTree]_vars

\* the lines of a text, as str.splitlines() gives them: "\n" separates two
\* lines and a final "\n" ends the last line without opening another
RECURSIVE SplitLines(_)
SplitLines(text) ==
    LET breaks == {i \in 1..Len(text) : text[i] = "\n"}
    IN  IF text = <<>> THEN <<>>
        ELSE IF breaks = {} THEN <<text>>
        ELSE LET k == CHOOSE i \in breaks : \A j \in breaks : i <= j
             IN  <<SubSeq(text, 1, k - 1)>> \o SplitLines(Drop(text, k))

\* the nodes of t from the i-th on, each before its children and its later
\* siblings (the order the loop visits them in), with its is_last flag
RECURSIVE PreOrderFrom(_, _)
PreOrderFrom(t, i) ==
    IF i > Len(t) THEN <<>>
    ELSE <<[node |-> t[i], is_last |-> i = Len(t)]>>
         \o (IF HasChildren(t[i]) THEN PreOrderFrom(t[i].children, 1) ELSE <<>>)
         \o PreOrderFrom(t, i + 1)

\* line l draws node n: prefix pieces, then connector, icon and name
Draws(l, n) ==
    /\ Len(l) >= 3
    /\ l[Len(l) - 2] = (IF n.is_last THEN LastConnector ELSE MidConnector)
    /\ l[Len(l)] = ToString(n.node.name)

\* C12: for every tree _build_tree can return, directories with an empty
\* children sequence included, _format_tree renders exactly one non-empty line
\* per node: as many lines as nodes, the last sibling drawn with the corner
\* connector and every other sibling with the tee.
C12_OneLinePerNode ==
    formatted.kind = "return" =>
        LET ls == SplitLines(formatted.value)
            po == PreOrderFrom(tree.value, 1)
        IN  /\ Len(ls) = Len(po)
            /\ \A i \in 1..Len(ls) : Draws(ls[i], po[i])

\* what the code keeps of C12: the lines that are not blank are one per node,
\* in order and with the right connector
C12_NonBlankLinePerNode ==
    formatted.kind = "return" =>
        LET ls == SelectSeq(SplitLines(formatted.value), LAMBDA l : l # <<>>)
            po == PreOrderFrom(tree.value, 1)
        IN  /\ Len(ls) = Len(po)
            /\ \A i \in 1..Len(ls) : Draws(ls[i], po[i])

\* and a tree in which no children sequence is empty is rendered as claimed
C12_NoEmptyChildren ==
    (/\ formatted.kind = "return"
     /\ \A dn \in NodesFrom(tree.value, 0) : HasChildren(dn[2]) => dn[2].children # <<>>)
    => LET ls == SplitLines(formatted.value)
           po == PreOrderFrom(tree.value, 1)
       IN  /\ Len(ls) = Len(po)
           /\ \A i \in 1..Len(ls) : Draws(ls[i], po[i])

(***************************************************************************)
(* _read_file_content: fetch, base64-decode, truncate                      *)
(***************************************************************************)
MAX_FILE_CONTENT_LENGTH == 3000

B64Alphabet == <<
    "A", "B", "C", "D", "E", "F", "G", "H", "I", "J", "K", "L", "M", "N", "O", "P",
    "Q", "R", "S", "T", "U", "V", "W", "X", "Y", "Z", "a", "b", "c", "d", "e", "f",
    "g", "h", "i", "j", "k", "l", "m", "n", "o", "p", "q", "r", "s", "t", "u", "v",
    "w", "x", "y", "z", "0", "1", "2", "3", "4", "5", "6", "7", "8", "9", "+", "/" >>

B64Value == [c \in {B64Alphabet[i] : i \in 1..64} |->
                (CHOOSE i \in 1..64 : B64Alphabet[i] = c) - 1]

IsB64Char(c) == c \in DOMAIN B64Value

IsPad(c) == c = "="

\* base64.b64decode(content): characters outside the alphabet (the line breaks
\* the API inserts) are discarded, the padded length must be a multiple of 4,
\* and every 4 characters give 3 bytes.
b64decode(text) ==
    LET data == SelectSeq(text, IsB64Char)
        pads == Len(SelectSeq(text, IsPad))
        n == (Len(data) * 6) \div 8
        v(j) == B64Value[data[j]]
        byte(i) ==
            LET q == 4 * ((i - 1) \div 3)
                k == (i - 1) % 3
            IN  CASE k = 0 -> v(q + 1) * 4 + v(q + 2) \div 16
                  [] k = 1 -> (v(q + 2) % 16) * 16 + v(q + 3) \div 4
                  [] k = 2 -> (v(q + 3) % 4) * 64 + v(q + 4)
    IN  IF (Len(data) + pads) % 4 # 0 \/ Len(data) % 4 = 1
        THEN Raise("binascii.Error")
        ELSE Return([i \in 1..n |-> byte(i)])

\* bytes.decode("utf-8", errors="replace"), as code points: an ASCII byte is
\* its own character and a byte that can start no UTF-8 sequence (0xF8..0xFF)
\* becomes U+FFFD; the modelled contents hold no other bytes.
utf8_decode_replace(bytes) ==
    [i \in 1..Len(bytes) |-> IF bytes[i] < 128 THEN bytes[i] ELSE 65533]

\* `decoded[:MAX_FILE_CONTENT_LENGTH]` with the slice lost
TruncateNone(decoded) == decoded

Truncate(decoded) == SubSeq(decoded, 1, Min(Len(decoded), MAX_FILE_CONTENT_LENGTH))

ReadCaught(e) == TRUE

Decodable(cf) == cf.encoding = "base64" /\ cf.content # <<>>

\* the body of the try block: an outcome of get_contents that is a list (the
\* path is a directory) has no `encoding` attribute
ReadTry(resp) ==
    IF resp.kind = "raise" THEN resp
    ELSE IF resp.value.isdir THEN Raise("AttributeError")
    ELSE IF Decodable(resp.value)
         THEN LET b == b64decode(resp.value.content)
              IN  IF b.kind = "raise" THEN b
                  ELSE Return(Some(Truncate(utf8_decode_replace(b.value))))
         ELSE Return(None)

_read_file_content(resp) ==
    LET r == ReadTry(resp)
    IN  IF r.kind = "raise" /\ ReadCaught(r.exc) THEN Return(None) ELSE r

\* remote file contents: n copies of a 4-character group, then a tail
Repeat(group, n) == [i \in 1..(n * Len(group)) |-> group[((i - 1) % Len(group)) + 1]]

B64Groups == {<<"Y", "W", "J", "j">>, <<"/", "/", "/", "/">>}

B64Tails == {<<>>, <<"Y", "Q", "=", "=">>, <<"Y", "W", "I", "=">>, <<"Y", "Q">>, <<"\n">>}

GroupCounts ==
    {0, 1} \cup {MAX_FILE_CONTENT_LENGTH \div 3 + d : d \in (0 - 1)..ExtraGroups}

FileResponse(enc, text) == Return([isdir |-> FALSE, encoding |-> enc, content |-> text])

\* a directory path answers with a list; a file too large to inline answers
\* with encoding "none" and empty content
ContentFiles ==
    {FileResponse("base64", Repeat(grp, n) \o t) : grp \in B64Groups, n \in GroupCounts, t \in B64Tails}
    \cup {FileResponse("none", <<>>)}
    \cup {Return([isdir |-> TRUE])}
    \cup {Raise(e) : e \in ListingExceptions}

InitRead ==
    /\ content_file \in ContentFiles
    /\ content = NotCalled
    /\ ParseIdle /\ TreeIdle /\ ChainIdle /\ ReqIdle

ReadFileContent ==
    /\ content.kind = "none"
    /\ content_file.kind # "none"
    /\ content' = _read_file_content(content_file)
    /\ UNCHANGED content_file
    /\ UNCHANGED <<parseVars, treeVars, chainVars, reqVars>>

NextRead == ReadFileContent

SpecRead == InitRead /\ [][NextRead]_vars

FetchFailed(resp) == resp.kind = "raise" \/ resp.value.isdir

\* the decoded text of a fetched file, as C5 speaks of it
DecodedOf(resp) == b64decode(resp.value.content)

IsPrefix(t, full) == Len(t) <= Len(full) /\ \A i \in 1..Len(t) : t[i] = full[i]

FirstChars(res, full) ==
    /\ res.kind = "return"
    /\ ~res.value.none
    /\ Len(res.value.text) = Min(Len(full), 3000)
    /\ IsPrefix(res.value.text, full)

\* C5 as stated: _read_file_content never raises; it returns None when the
\* fetch or the decode fails, and otherwise the first min(len, 3000)
\* characters of the decoded content.
C5_ReadNoneOnlyOnFailure ==
    content.kind # "none" =>
        /\ content.kind = "return"
        /\ IF FetchFailed(content_file) \/ DecodedOf(content_file).kind = "raise"
           THEN content = Return(None)
           ELSE FirstChars(content, utf8_decode_replace(DecodedOf(content_file).value))

\* C5 amended: _read_file_content never raises; it returns None when the fetch
\* or the decode fails, and also when the encoding tag is not base64 or the
\* content is empty; otherwise it returns the first min(len, 3000) characters
\* of the decoded content, so its length is at most 3000.
C5_ReadTruncated ==
    content.kind # "none" =>
        /\ content.kind = "return"
        /\ IF \/ FetchFailed(content_file)
              \/ content_file.value.encoding # "base64"
              \/ content_file.value.content = <<>>
              \/ DecodedOf(content_file).kind = "raise"
           THEN content = Return(None)
           ELSE FirstChars(content, utf8_decode_replace(DecodedOf(content_file).value))

\* a file longer than the budget was fetched, decoded and cut to 3000
C5_Witness ==
    /\ content.kind = "return"
    /\ ~content.value.none
    /\ Len(content.value.text) = 3000
    /\ Len(DecodedOf(content_file).value) > 3000

(***************************************************************************)
(* agents.py: style table and generation prompt                            *)
(*                                                                         *)
(* A prompt is the sequence of its parts: the fixed blocks of a template   *)
(* are named by their first line, the interpolated values stand between    *)
(* them in template order.                                                 *)
(***************************************************************************)
STYLES ==
    [minimal |-> [name |-> "Minimal", instructions |-> "## Style: MINIMAL"],
     detailed |-> [name |-> "Detailed", instructions |-> "## Style: DETAILED"],
     awesome |-> [name |-> "Awesome", instructions |-> "## Style: AWESOME (Eye-catching)"]]

\* `STYLES.get(style, STYLES["detailed"])` falling back to the first entry
StyleConfigFirst(st) == IF st \in DOMAIN STYLES THEN STYLES[st] ELSE STYLES["minimal"]

StyleConfig(st) == IF st \in DOMAIN STYLES THEN STYLES[st] ELSE STYLES["detailed"]

CustomInstructionsBlock(ci) ==
    IF Strip(ci) # <<>>
    THEN <<"## Custom Instructions from User", ci>>
    ELSE <<>>

\* SYSTEM_PROMPT.format(style_instructions=..., custom_instructions_block=...)
SystemPrompt(st, ci) ==
    <<"You are an expert technical writer", StyleConfig(st).instructions>>
    \o CustomInstructionsBlock(ci)
    \o <<"## Rules">>

\* _format_important_files
_format_important_files(files) ==
    IF DOMAIN files = {} THEN "_No config files found._" ELSE <<"files", files>>

\* `x or placeholder` on an optional or possibly empty text
OrElse(x, placeholder) == IF x = None \/ x = Some(<<>>) THEN placeholder ELSE x

\* USER_TEMPLATE filled with the variables generate_readme passes to invoke
UserPrompt(data) ==
    <<"Here is the repository data:",
      "### Metadata", <<"json", data.metadata>>,
      "### Languages", <<"json", data.languages>>,
      "### File Tree", OrElse(Some(data.file_tree), "No file tree available"),
      "### Important Config Files", _format_important_files(data.important_files),
      "### Existing README", OrElse(data.existing_readme, "_No existing README found._"),
      "Generate a professional README.md for this repository.">>

\* the message pair build_chain and generate_readme hand to the model
GenerationPrompt(data, st, ci) == [system |-> SystemPrompt(st, ci), human |-> UserPrompt(data)]

StyleKeys == {"minimal", "detailed", "awesome", "", "Detailed", "fancy"}

CustomInstructionValues == {<<>>, <<" ">>, <<"x">>, <<" ", "x", "\n">>}

NoFiles == [f \in {} |-> <<>>]

ChainDigests ==
    {[metadata |-> m, languages |-> l, file_tree |-> t, important_files |-> f,
      existing_readme |-> r] :
        m \in {[full_name |-> "o/r", description |-> "No description provided"],
               [full_name |-> "o/r", description |-> "d"]},
        l \in {[x \in {} |-> 0], [Python |-> 10]},
        t \in {<<>>, <<"tree">>},
        f \in {NoFiles, [x \in {"LICENSE"} |-> <<77>>]},
        r \in {None, Some(<<35>>)}}

InitChain ==
    /\ style \in StyleKeys
    /\ custom_instructions \in CustomInstructionValues
    /\ chain_data \in ChainDigests
    /\ prompt = NotCalled
    /\ ParseIdle /\ TreeIdle /\ ReadIdle /\ ReqIdle

GenerateReadme ==
    /\ prompt.kind = "none"
    /\ prompt' = Return(GenerationPrompt(chain_data, style, custom_instructions))
    /\ UNCHANGED <<style, custom_instructions, chain_data>>
    /\ UNCHANGED <<parseVars, treeVars, readVars, reqVars>>

NextChain == GenerateReadme

SpecChain == InitChain /\ [][NextChain]_vars

\* the detailed prompt (agents.py:27-45) for the same digest and instructions,
\* written out part by part
DetailedPromptFor(data, ci) ==
    [system |-> <<"You are an expert technical writer", "## Style: DETAILED">>
                \o (IF Strip(ci) # <<>> THEN <<"## Custom Instructions from User", ci>> ELSE <<>>)
                \o <<"## Rules">>,
     human |-> UserPrompt(data)]

IMPORTANT_FILES ==
    <<"setup.py", "setup.cfg", "pyproject.toml", "package.json", "Cargo.toml", "go.mod",
      "pom.xml", "build.gradle", "Makefile", "Dockerfile", "docker-compose.yml",
      "docker-compose.yaml", ".github/workflows", "LICENSE", "CONTRIBUTING.md">>

README_CANDIDATES == <<"README.md", "readme.md", "README.rst", "README.txt", "README">>

\* `if content:` on an Optional[str]
Truthy(c) == ~c.none /\ c.text # <<>>

\* the exception classes `except ValueError` catches: ValueError itself and
\* langchain_core's OutputParserException, which JsonOutputParser raises on
\* text that is not JSON and which is declared a subclass of ValueError
IsValueError(e) == e \in {"ValueError", "OutputParserException"}

\* app.py: `except ValueError` -> 400, `except Exception` -> 500
ErrorResponse(e, msg) ==
    [status |-> IF IsValueError(e) THEN 400 ELSE 500, exc |-> e, detail |-> msg]

RepoUrls == {HTTPS \o HOST \o <<"o", "/", "r">>, <<"o", "/", "r">> \o DOTGIT \o SLASH, <<"o">>}

Requests ==
    {[endpoint |-> "generate", repo_url |-> u, style |-> st, custom_instructions |-> <<>>] :
        u \in RepoUrls, st \in {"minimal", "fancy"}}
    \cup {[endpoint |-> "analyze", repo_url |-> u] : u \in RepoUrls}

RemoteOutcomes == {"ok"} \cup ListingExceptions

Init ==
    /\ request \in Requests
    /\ pc = "fetch"
    /\ g = "none" /\ repo = NotCalled
    /\ file_tree = <<>> /\ important_files = <<>> /\ existing_readme = None
    /\ readme_i = 0 /\ calls = <<>> /\ repo_data = NotCalled
    /\ completion = NotCalled /\ response = NotCalled
    /\ ParseIdle /\ TreeIdle /\ ReadIdle /\ ChainIdle

others == <<parseVars, treeVars, readVars, chainVars>>

\* an exception leaves fetch_repo_data and reaches the handler's except clauses
FetchRaises(e, msg) ==
    /\ repo_data' = Raise(e)
    /\ response' = ErrorResponse(e, msg)
    /\ pc' = "done"

\* tools.py:129  full_name = parse_repo_url(repo_url)
ParseUrl ==
    /\ pc = "fetch"
    /\ IF parse_repo_url(request.repo_url).kind = "raise"
       THEN FetchRaises("ValueError", "Invalid GitHub URL")
       ELSE pc' = "client" /\ UNCHANGED <<repo_data, response>>
    /\ UNCHANGED <<request, g, repo, file_tree, important_files, existing_readme,
                   readme_i, calls, completion>>
    /\ UNCHANGED others

\* tools.py:131-136  g = Github(...)
CreateClient ==
    /\ pc = "client"
    /\ g' = "open"
    /\ pc' = "get_repo"
    /\ UNCHANGED <<request, repo, file_tree, important_files, existing_readme,
                   readme_i, calls, repo_data, completion, response>>
    /\ UNCHANGED others

\* tools.py:138-141  repo = g.get_repo(full_name)
GetRepo ==
    /\ pc = "get_repo"
    /\ \E o \in RemoteOutcomes :
        CASE o = "ok" ->
               /\ repo' = Return([full_name |-> parse_repo_url(request.repo_url).value])
               /\ pc' = "metadata"
               /\ UNCHANGED <<repo_data, response>>
          [] o = "GithubException" ->
               /\ FetchRaises("ValueError", "Could not access repository")
               /\ UNCHANGED repo
          [] OTHER ->
               /\ FetchRaises(o, "get_repo")
               /\ UNCHANGED repo
    /\ UNCHANGED <<request, g, file_tree, important_files, existing_readme,
                   readme_i, calls, completion>>
    /\ UNCHANGED others

\* a remote read that no try block surrounds
Unguarded(o, next, what) ==
    IF o = "ok"
    THEN pc' = next /\ UNCHANGED <<repo_data, response>>
    ELSE FetchRaises(o, what)

\* tools.py:144-160  metadata, with the remote call repo.get_topics()
ReadMetadata ==
    /\ pc = "metadata"
    /\ \E o \in RemoteOutcomes : Unguarded(o, "languages", "get_topics")
    /\ UNCHANGED <<request, g, repo, file_tree, important_files, existing_readme,
                   readme_i, calls, completion>>
    /\ UNCHANGED others

\* tools.py:163  languages = repo.get_languages()
ReadLanguages ==
    /\ pc = "languages"
    /\ \E o \in RemoteOutcomes : Unguarded(o, "tree", "get_languages")
    /\ UNCHANGED <<request, g, repo, file_tree, important_files, existing_readme,
                   readme_i, calls, completion>>
    /\ UNCHANGED others

RequestShapes ==
    {[d \in 1..RemoteDepth |-> IF d = 1 THEN l1 ELSE IF d = 2 THEN l2 ELSE <<"file">>] :
        l1 \in {<<>>, <<"dir", "file">>}, l2 \in {<<>>, <<"file">>}}

\* tools.py:166-167  tree = _build_tree(repo); file_tree_str = _format_tree(tree)
BuildFileTree ==
    /\ pc = "tree"
    /\ \E sh \in RequestShapes, f \in {{}, {<<1>>}}, a \in BOOLEAN, e \in ListingExceptions :
        LET t == _build_tree(Remote(sh, f, a, e), <<>>, 0)
        IN  IF t.kind = "raise"
            THEN FetchRaises(t.exc, "get_contents") /\ UNCHANGED file_tree
            ELSE /\ file_tree' = _format_tree(t.value, <<>>)
                 /\ pc' = "files"
                 /\ UNCHANGED <<repo_data, response>>
    /\ UNCHANGED <<request, g, repo, important_files, existing_readme,
                   readme_i, calls, completion>>
    /\ UNCHANGED others

SmallFile == FileResponse("base64", <<"Y", "W", "J", "j">>)

OtherFile == FileResponse("base64", <<"/", "/", "/", "/">>)

BlankFile == FileResponse("base64", <<"\n">>)

FoundSets == {{}, {"setup.py"}, {"LICENSE", ".github/workflows"}}

MissingResponses == {Raise(e) : e \in ListingExceptions} \cup {FileResponse("none", <<>>)}

\* tools.py:170-174  the loop over IMPORTANT_FILES
ReadImportantFiles ==
    /\ pc = "files"
    /\ \E found \in FoundSets, miss \in MissingResponses :
        LET answer(f) == IF f \notin found THEN miss
                         ELSE IF f = ".github/workflows" THEN Return([isdir |-> TRUE])
                         ELSE SmallFile
            read(f) == _read_file_content(answer(f))
            paths == {IMPORTANT_FILES[i] : i \in 1..Len(IMPORTANT_FILES)}
            raising == {f \in paths : read(f).kind = "raise"}
        IN  IF raising # {}
            THEN /\ FetchRaises((CHOOSE f \in raising : TRUE), "get_contents")
                 /\ UNCHANGED <<important_files, readme_i>>
            ELSE /\ important_files' = [f \in {x \in paths : Truthy(read(x).value)} |->
                                            read(f).value.text]
                 /\ readme_i' = 1
                 /\ pc' = "readme"
                 /\ UNCHANGED <<repo_data, response>>
    /\ UNCHANGED <<request, g, repo, file_tree, existing_readme, calls, completion>>
    /\ UNCHANGED others

ReadmeResponses == MissingResponses \cup {SmallFile, OtherFile, BlankFile}

\* `break` after the first hit, lost
BreaksNever(c) == FALSE

\* tools.py:180-182  `if content: existing_readme = content; break`
Breaks(c) == Truthy(c)

\* tools.py:178-182  one turn of the loop over the README candidates
ReadReadmeCandidate ==
    /\ pc = "readme"
    /\ \E resp \in ReadmeResponses :
        LET r == _read_file_content(resp)
        IN  IF r.kind = "raise"
            THEN /\ FetchRaises(r.exc, "get_contents")
                 /\ UNCHANGED <<existing_readme, readme_i, calls>>
            ELSE /\ calls' = Append(calls, [op |-> "read",
                                            path |-> README_CANDIDATES[readme_i],
                                            content |-> r.value])
                 /\ existing_readme' = IF Truthy(r.value) THEN r.value ELSE existing_readme
                 /\ IF Breaks(r.value) \/ readme_i = Len(README_CANDIDATES)
                    THEN pc' = "close" /\ UNCHANGED readme_i
                    ELSE pc' = "readme" /\ readme_i' = readme_i + 1
                 /\ UNCHANGED <<repo_data, response>>
    /\ UNCHANGED <<request, g, repo, file_tree, important_files, completion>>
    /\ UNCHANGED others

Digest ==
    [metadata |-> [full_name |-> repo.value.full_name,
                   description |-> "No description provided"],
     languages |-> [Python |-> 10],
     file_tree |-> file_tree,
     important_files |-> important_files,
     existing_readme |-> existing_readme]

\* tools.py:184-192  g.close(); return {...}
CloseAndReturn ==
    /\ pc = "close"
    /\ g' = "closed"
    /\ repo_data' = Return(Digest)
    /\ pc' = IF request.endpoint = "generate" THEN "generate" ELSE "check_readme"
    /\ UNCHANGED <<request, repo, file_tree, important_files, existing_readme,
                   readme_i, calls, completion, response>>
    /\ UNCHANGED others

CompletionCall(p) == [op |-> "llm", prompt |-> p]

\* app.py:76-89 and agents.py:210-231  generate_readme and the response
Generate ==
    /\ pc = "generate"
    /\ calls' = Append(calls, CompletionCall(
            GenerationPrompt(repo_data.value, request.style, request.custom_instructions)))
    /\ \E c \in {[kind |-> "transport_error"], [kind |-> "text", text |-> <<" ", "#", "\n">>]} :
        /\ completion' = c
        /\ response' = IF c.kind = "transport_error"
                       THEN ErrorResponse("CompletionError", "Failed to generate README")
                       ELSE [status |-> 200,
                             body |-> [readme_content |-> Strip(c.text),
                                       repo_name |-> repo_data.value.metadata.full_name]]
    /\ pc' = "done"
    /\ UNCHANGED <<request, g, repo, file_tree, important_files, existing_readme,
                   readme_i, repo_data>>
    /\ UNCHANGED others

\* `if not repo_data.get("existing_readme")` never taken
NoReadmeNever(data) == FALSE

\* app.py:112  `not repo_data.get("existing_readme")`
NoReadme(data) == ~Truthy(data.existing_readme)

\* app.py:112-113  the refusal of a digest without README
CheckReadme ==
    /\ pc = "check_readme"
    /\ IF NoReadme(repo_data.value)
       THEN /\ response' = ErrorResponse("ValueError", "Nothing to analyze")
            /\ pc' = "done"
       ELSE /\ pc' = "analyze"
            /\ UNCHANGED response
    /\ UNCHANGED <<request, g, repo, file_tree, important_files, existing_readme,
                   readme_i, calls, repo_data, completion>>
    /\ UNCHANGED others

VerdictKeys == {"score", "summary", "strengths", "improvements", "missing_sections"}

\* what a well-formed answer carries under each key
AnswerValue ==
    [score |-> 85, summary |-> <<"s">>, strengths |-> <<"a">>,
     improvements |-> <<"b">>, missing_sections |-> <<"c">>]

\* app.py:120-124  the defaults of analysis.get(key, default)
GetDefault ==
    [score |-> 0, summary |-> <<>>, strengths |-> <<>>,
     improvements |-> <<>>, missing_sections |-> <<>>]

Completions ==
    {[kind |-> "transport_error"], [kind |-> "text", json |-> "invalid"],
     [kind |-> "text", json |-> "array"]}
    \cup {[kind |-> "text", json |-> "object", keys |-> K] : K \in SUBSET VerdictKeys}

\* agents.py:250-258  chain.invoke through JsonOutputParser
analyze_readme(c) ==
    CASE c.kind = "transport_error" -> Raise("CompletionError")
      [] c.json = "invalid" -> Raise("OutputParserException")
      [] c.json = "array" -> Return([isdict |-> FALSE])
      [] OTHER -> Return([isdict |-> TRUE, dict |-> [k \in c.keys |-> AnswerValue[k]]])

\* dict.get(key, default)
Get(d, k, default) == IF k \in DOMAIN d THEN d[k] ELSE default

AnalysisPrompt(data) ==
    [system |-> <<"You are a README quality analyst">>,
     human |-> <<"Repository:", data.metadata.full_name,
                 "README content:", OrElse(data.existing_readme, "_No README found._"),
                 "Repository metadata:", <<"json", data.metadata>>>>]

\* app.py:115-133  analyze_readme and the response built from its result
Analyze ==
    /\ pc = "analyze"
    /\ calls' = Append(calls, CompletionCall(AnalysisPrompt(repo_data.value)))
    /\ \E c \in Completions :
        LET analysis == analyze_readme(c)
        IN  /\ completion' = c
            /\ response' =
                 IF analysis.kind = "raise"
                 THEN ErrorResponse(analysis.exc, "Failed to analyze README")
                 ELSE IF ~analysis.value.isdict
                 THEN ErrorResponse("AttributeError", "Failed to analyze README")
                 ELSE [status |-> 200,
                       body |-> [k \in VerdictKeys \cup {"repo_name"} |->
                                   IF k = "repo_name" THEN repo_data.value.metadata.full_name
                                   ELSE Get(analysis.value.dict, k, GetDefault[k])]]
    /\ pc' = "done"
    /\ UNCHANGED <<request, g, repo, file_tree, important_files, existing_readme,
                   readme_i, repo_data>>
    /\ UNCHANGED others

Next ==
    \/ ParseUrl
    \/ CreateClient
    \/ GetRepo
    \/ ReadMetadata
    \/ ReadLanguages
    \/ BuildFileTree
    \/ ReadImportantFiles
    \/ ReadReadmeCandidate
    \/ CloseAndReturn
    \/ Generate
    \/ CheckReadme
    \/ Analyze

Spec == Init /\ [][Next]_vars

\* the README reads made so far
Reads == SelectSeq(calls, LAMBDA c : c.op = "read")

Hits == {k \in 1..Len(Reads) : Truthy(Reads[k].content)}

\* C6: in the digest fetch_repo_data returns, existing_readme is the content of
\* the first candidate, in the order README.md, readme.md, README.rst,
\* README.txt, README, whose read yields content, and absent exactly when none
\* does; once a candidate hits, no later candidate is fetched.
C6_FirstReadmeWins ==
    /\ \A k \in 1..Len(Reads) :
          /\ k <= 5
          /\ Reads[k].path = <<"README.md", "readme.md", "README.rst", "README.txt", "README">>[k]
          /\ k < Len(Reads) => ~Truthy(Reads[k].content)
    /\ repo_data.kind = "return" =>
          IF Hits = {}
          THEN Len(Reads) = 5 /\ repo_data.value.existing_readme = None
          ELSE /\ Hits = {Len(Reads)}
               /\ repo_data.value.existing_readme = Reads[Len(Reads)].content

\* the third candidate hits after two that yield nothing, and reading stops
C6_Witness ==
    /\ repo_data.kind = "return"
    /\ Len(Reads) = 3
    /\ Reads[1].content = None
    /\ Reads[2].content = Some(<<>>)
    /\ repo_data.value.existing_readme = Reads[3].content
    /\ Truthy(Reads[3].content)

\* C7: once the repository handle has been resolved, no failure of a later
\* remote call inside fetch_repo_data aborts the aggregation: fetch_repo_data
\* always returns a digest.
C7_FetchReturnsOnceResolved ==
    (repo.kind = "return" /\ repo_data.kind # "none") => repo_data.kind = "return"

\* what the code keeps of C7: after the handle is resolved, a failing file
\* read or README read never aborts; only get_topics, get_languages and a
\* listing call that fails with something else than GithubException do
C7_AbortsOnlyUnguarded ==
    (repo.kind = "return" /\ repo_data.kind = "raise") =>
        /\ response.detail \in {"get_topics", "get_languages", "get_contents"}
        /\ response.detail = "get_contents" =>
              (repo_data.exc # "GithubException" /\ readme_i = 0)

CompletionCalls == SelectSeq(calls, LAMBDA c : c.op = "llm")

\* C8: analysis requested against a digest whose existing_readme is absent or
\* empty is refused with a 'nothing to analyze' error, the completion service
\* is never called in that request and no verdict is produced.
C8_NoReadmeRefused ==
    (/\ request.endpoint = "analyze"
     /\ repo_data.kind = "return"
     /\ (repo_data.value.existing_readme = None \/ repo_data.value.existing_readme = Some(<<>>)))
    => /\ CompletionCalls = <<>>
       /\ completion = NotCalled
       /\ pc = "done" => (response.status = 400 /\ response.detail = "Nothing to analyze")

C8_Witness ==
    /\ request.endpoint = "analyze"
    /\ repo_data.kind = "return"
    /\ repo_data.value.existing_readme = None
    /\ pc = "done"
    /\ response.status = 400
    /\ calls # <<>>

\* C10: in the analysis pipeline a completion that is a JSON object missing
\* any of the five keys yields a verdict with that field defaulted and no
\* failure, whereas a completion that is not valid JSON yields a server-side
\* dependency error (MalformedResponseError class), never a verdict.
C10_DefaultsOrServerError ==
    (request.endpoint = "analyze" /\ pc = "done" /\ completion.kind = "text") =>
        /\ completion.json = "object" =>
              /\ response.status = 200
              /\ \A k \in VerdictKeys :
                    response.body[k] = IF k \in completion.keys THEN AnswerValue[k]
                                       ELSE CASE k = "score" -> 0
                                              [] OTHER -> <<>>
        /\ completion.json = "invalid" => response.status = 500

\* what the code keeps of C10: missing keys are defaulted, and text that is
\* not JSON fails the request without a verdict (as a client error)
C10_DefaultsOrFailure ==
    (request.endpoint = "analyze" /\ pc = "done" /\ completion.kind = "text") =>
        /\ completion.json = "object" =>
              /\ response.status = 200
              /\ \A k \in VerdictKeys :
                    response.body[k] = IF k \in completion.keys THEN AnswerValue[k]
                                       ELSE CASE k = "score" -> 0
                                              [] OTHER -> <<>>
        /\ completion.json = "invalid" => response.status = 400

\* C11: the repository client is scoped to one request: on every path out of
\* fetch_repo_data after the client was created, the normal return and every
\* failure alike, the client has been closed.
C11_ClientReleased ==
    (g # "none" /\ repo_data.kind # "none") => g = "closed"

\* what the code keeps of C11: the client is closed when fetch_repo_data
\* returns a digest, and is never closed before that
C11_ClosedOnReturn ==
    /\ repo_data.kind = "return" => g = "closed"
    /\ g = "closed" => repo_data.kind = "return"

(***************************************************************************)
(* parse_repo_url on bounded inputs                                        *)
(***************************************************************************)
\* all sequences over S of length at most n
SeqsUpTo(S, n) == UNION {[1..k -> S] : k \in 0..n}

OwnerNames == (SeqsUpTo({"a", " "}, MaxNameLen) \ {<<>>}) \cup {SubSeq(HOST, 1, Len(HOST) - 1)}

RepoNames == {c \o suf : c \in SeqsUpTo({"a", " ", "."}, MaxNameLen), suf \in {<<>>, DOTGIT}} \ {<<>>}

\* the four accepted reference forms for owner o and name r
AcceptedForm(f, o, r) ==
    CASE f = 1 -> HTTPS \o HOST \o o \o SLASH \o r
      [] f = 2 -> HTTPS \o HOST \o o \o SLASH \o r \o DOTGIT
      [] f = 3 -> HOST \o o \o SLASH \o r
      [] f = 4 -> o \o SLASH \o r

FreePrefixes == {<<>>, HTTPS \o HOST, HTTP \o HOST, HOST, <<" ">> \o HOST}

FreeSuffixes == {<<>>, DOTGIT, SLASH, DOTGIT \o SLASH, DOTGIT \o DOTGIT,
                 <<" ">>, DOTGIT \o <<"/", "a">>, <<"/", " ">>}

InitParseForm ==
    \E o \in OwnerNames, r \in RepoNames, f \in 1..4,
       lead \in {<<>>, <<" ">>}, slash \in {<<>>, SLASH}, trail \in {<<>>, <<" ">>, <<"\n">>} :
        /\ owner = o
        /\ name = r
        /\ form = f
        /\ url = lead \o AcceptedForm(f, o, r) \o slash \o trail

InitParseFree ==
    \E p \in FreePrefixes, c \in SeqsUpTo({"a", "/", " "}, MaxCoreLen), x \in FreeSuffixes :
        /\ owner = <<>>
        /\ name = <<>>
        /\ form = 0
        /\ url = p \o c \o x

InitParse ==
    /\ InitParseFree \/ InitParseForm
    /\ parsed = NotCalled
    /\ TreeIdle /\ ReadIdle /\ ChainIdle /\ ReqIdle

ParseRepoUrl ==
    /\ parsed.kind = "none"
    /\ parsed' = parse_repo_url(url)
    /\ UNCHANGED <<url, owner, name, form>>
    /\ UNCHANGED <<treeVars, readVars, chainVars, reqVars>>

NextParse == ParseRepoUrl

SpecParse == InitParse /\ [][NextParse]_vars

\* a name as a user means it: no whitespace at either end
Trimmed(s) == s # <<>> /\ s[1] \notin Whitespace /\ s[Len(s)] \notin Whitespace

FullName(o, r) == o \o SLASH \o r

\* C1 as stated: every accepted form of every owner o and name r (non-empty,
\* no '/'), with surrounding whitespace or a trailing slash, parses to "o/r".
C1_AnyNameParses ==
    (form \in 1..4 /\ parsed.kind # "none") => parsed = Return(FullName(owner, name))

\* C1 amended: for owner and name that carry no whitespace at either end and a
\* name that does not itself end in ".git", every accepted form, with
\* surrounding whitespace or a trailing slash, parses to exactly "o/r".
C1_AcceptedFormsParse ==
    (/\ form \in 1..4
     /\ parsed.kind # "none"
     /\ Trimmed(owner) /\ Trimmed(name)
     /\ ~EndsWith(name, DOTGIT)) => parsed = Return(FullName(owner, name))

C1_Witness ==
    /\ form = 2
    /\ url[1] \in Whitespace
    /\ EndsWith(Strip(url), SLASH)
    /\ Trimmed(owner) /\ Trimmed(name) /\ ~EndsWith(name, DOTGIT)
    /\ parsed = Return(FullName(owner, name))

CountSlash(s) == Cardinality({i \in 1..Len(s) : s[i] = "/"})

\* a canonical RepositoryReference: owner/name, no protocol, host or suffix
Canonical(v) ==
    /\ CountSlash(v) = 1
    /\ v[1] # "/" /\ v[Len(v)] # "/"
    /\ ~StartsWith(v, HOST)
    /\ ~\E i \in 1..Len(v) : StartsWith(Drop(v, i - 1), <<":", "/", "/">>)
    /\ ~EndsWith(v, DOTGIT)

\* C2: every value parse_repo_url returns is a canonical RepositoryReference
\* (exactly one '/', no protocol, no host, no ".git" suffix).
C2_ReturnsCanonical == parsed.kind = "return" => Canonical(parsed.value)

\* the part of C2 the code does keep: exactly one '/', both sides non-empty
C2_Shape ==
    parsed.kind = "return" =>
        /\ CountSlash(parsed.value) = 1
        /\ parsed.value[1] # "/" /\ parsed.value[Len(parsed.value)] # "/"

====
